---- MODULE Spec2Model ----
(***************************************************************************)
(* Debt scenario calculation engine (backend/app/services/debt_calculator) *)
(* of the debt-optimization service: the single-debt payoff simulation,    *)
(* the minimum-payment scenario, the cascading avalanche simulation and    *)
(* the consolidation scenario, with the two services that call it          *)
(* (analysis_service, enhanced_consolidation_service) and the optimized    *)
(* scenario of the first calculator (app/services/debt_calculator).        *)
(*                                                                         *)
(* Numbers.  The program computes with binary floating point.  Here every  *)
(* currency amount is a fixed-point integer in thousandths of a currency   *)
(* unit (1000 = 1.00), annual rates and card percentages are whole         *)
(* percents, and a product followed by a division is truncated to the      *)
(* thousandth.  The 0.01 threshold is 10, the 10.0 card floor is 10000.    *)
(* A priority score is kept doubled, as days_past_due * 0.5 is a half.     *)
(* A confidence score is kept in tenths (7 = 0.7).                         *)
(*                                                                         *)
(* Breakdowns.  A monthly_breakdown list is kept as what is read from it:  *)
(* per debt the sums of its payment_amount and interest_portion and the    *)
(* number of its rows, and the rows of the running month.                  *)
(***************************************************************************)
EXTENDS Integers, Sequences, FiniteSets, TLC

VARIABLES
    db,       \* the stored records of the customer: loans, cards, cashflow
    offers,   \* the stored bank_offers table
    pc,       \* where the running call is
    call,     \* the arguments of the running call
    pf,       \* locals of _calculate_debt_payoff
    av,       \* locals of calculate_optimized_scenario
    cs,       \* locals of calculate_consolidation_scenario and its callers
    result    \* the returned PaymentPlan or ScenarioResult

vars == <<db, offers, pc, call, pf, av, cs, result>>

----------------------------------------------------------------------------
(* Program constants *)

\* while ... and months < 600 / max_months = 600
max_months == 600
\* months = 999 when the payment does not cover the interest
NEVER_PAYS_OFF == 999
\* total_interest = debt.balance * 10
PENALTY_FACTOR == 10
\* balance > 0.01, in thousandths
EPSILON == 10
\* max(balance * pct / 100, 10.0), in thousandths
MIN_CARD_PAYMENT == 10000
\* Loan.priority_score: score += 5 for unsecured debt (doubled)
UNSECURED_BONUS2 == 10
\* Card.priority_score: score += 10 (doubled)
CARD_BONUS2 == 20
\* fixed-point scale of the compound factor (1 + r)^n
FACTOR_SCALE == 1000 * 1000

(* Bounds of the model *)
MaxLoans == 2
MaxCards == 1

\* Python's None (no record, no value): no amount or percentage is negative
None == -1

Min(a, b) == IF a <= b THEN a ELSE b
Max(a, b) == IF a >= b THEN a ELSE b

----------------------------------------------------------------------------
(* models/debt.py *)

\* balance * (annual_rate_pct / 100 / 12)
MonthlyInterest(balance, annual_rate_pct) ==
    (balance * annual_rate_pct) \div 1200

\* (1 + monthly_rate) ** n, scaled by FACTOR_SCALE
RECURSIVE CompoundFactor(_, _)
CompoundFactor(annual_rate_pct, n) ==
    IF n <= 0 THEN FACTOR_SCALE
    ELSE (CompoundFactor(annual_rate_pct, n - 1) * (1200 + annual_rate_pct)) \div 1200

\* payment = P * (r * (1 + r)^n) / ((1 + r)^n - 1), with r * P taken first
AmortizedPayment(principal, annual_rate_pct, n) ==
    LET q == CompoundFactor(annual_rate_pct, n)
        i == MonthlyInterest(principal, annual_rate_pct)
    IN  i + (i * (FACTOR_SCALE \div 10)) \div ((q - FACTOR_SCALE) \div 10)

LoanMinimumPayment(loan) ==
    IF loan.remaining_term_months <= 0 THEN loan.principal
    ELSE IF loan.annual_rate_pct = 0
         THEN loan.principal \div loan.remaining_term_months
         ELSE AmortizedPayment(loan.principal, loan.annual_rate_pct,
                               loan.remaining_term_months)

\* doubled: 2 * (rate + days_past_due * 0.5 + 5 if unsecured)
LoanPriorityScore(loan) ==
    2 * loan.annual_rate_pct
    + (IF loan.days_past_due > 0 THEN loan.days_past_due ELSE 0)
    + (IF ~loan.collateral THEN UNSECURED_BONUS2 ELSE 0)

CardMinimumPayment(card) ==
    (card.balance * card.min_payment_pct) \div 100

\* doubled: 2 * (rate + days_past_due * 0.5 + 10)
CardPriorityScore(card) ==
    2 * card.annual_rate_pct
    + (IF card.days_past_due > 0 THEN card.days_past_due ELSE 0)
    + CARD_BONUS2

----------------------------------------------------------------------------
(* The stored records the runs start from *)

MkLoan(id, principal, rate, term, collateral, dpd) ==
    [id |-> id, principal |-> principal, annual_rate_pct |-> rate,
     remaining_term_months |-> term, collateral |-> collateral,
     days_past_due |-> dpd]

MkCard(id, balance, rate, pct, dpd) ==
    [id |-> id, balance |-> balance, annual_rate_pct |-> rate,
     min_payment_pct |-> pct, days_past_due |-> dpd]

LoanCatalogue ==
    << MkLoan("L1", 1000000, 12, 12, FALSE, 0),
       MkLoan("L2", 500000, 20, 6, FALSE, 0),
       MkLoan("L3", 1200000, 0, 12, TRUE, 0),
       MkLoan("L4", 300000, 20, 0, TRUE, 45),
       MkLoan("L5", 100006, 0, 2, FALSE, 0) >>

CardCatalogue ==
    << MkCard("K1", 500000, 24, 3, 0),
       MkCard("K2", 100000, 18, 3, 0),
       MkCard("K3", 1000000, 36, 1, 10),
       MkCard("K4", 200000, 20, 0, 0) >>

\* conservative_cashflow values; None: the customer has no cashflow record
CashflowChoices ==
    {None, 0, 5000, 11000, 60000, 150000, 400000, 2000000}

\* the subsequences of s of at most k elements, in the order of s
RECURSIVE SubSeqsUpTo(_, _)
SubSeqsUpTo(s, k) ==
    IF Len(s) = 0 \/ k = 0 THEN {<<>>}
    ELSE LET rest == SubSeqsUpTo(Tail(s), k)
             incl == {<<Head(s)>> \o t : t \in SubSeqsUpTo(Tail(s), k - 1)}
         IN  rest \cup incl

Customers ==
    [loans : SubSeqsUpTo(LoanCatalogue, MaxLoans),
     cards : SubSeqsUpTo(CardCatalogue, MaxCards),
     cashflow : CashflowChoices]

----------------------------------------------------------------------------
(* DebtCalculator.get_customer_debts *)

LoanDebtItem(loan) ==
    [id |-> loan.id, debt_type |-> "loan", balance |-> loan.principal,
     annual_rate_pct |-> loan.annual_rate_pct,
     minimum_payment |-> LoanMinimumPayment(loan),
     days_past_due |-> loan.days_past_due,
     priority_score |-> LoanPriorityScore(loan)]

CardDebtItem(card) ==
    [id |-> card.id, debt_type |-> "card", balance |-> card.balance,
     annual_rate_pct |-> card.annual_rate_pct,
     minimum_payment |-> CardMinimumPayment(card),
     days_past_due |-> card.days_past_due,
     priority_score |-> CardPriorityScore(card)]

\* loans first, then cards, each in the order the store returns them
get_customer_debts(d) ==
    [i \in 1..Len(d.loans) |-> LoanDebtItem(d.loans[i])]
    \o [i \in 1..Len(d.cards) |-> CardDebtItem(d.cards[i])]

\* db.query(Card).filter(Card.id == debt.id).first().min_payment_pct,
\* None when no such card is stored
CardMinPaymentPct(d, id) ==
    IF \E i \in 1..Len(d.cards) : d.cards[i].id = id
    THEN LET i == CHOOSE j \in 1..Len(d.cards) : d.cards[j].id = id
         IN  d.cards[i].min_payment_pct
    ELSE None

\* Python truth value of min_payment_pct: None and 0.0 are false
Truthy(pct) == pct # None /\ pct # 0

----------------------------------------------------------------------------
(* DebtCalculator._calculate_debt_payoff                                   *)
(* version "backend": backend/app/services/debt_calculator.py              *)
(* version "legacy":  app/services/debt_calculator.py                      *)

\* if monthly_payment <= 0 or debt.balance <= 0: return the empty plan
PayoffEarlyReturn(debt, monthly_payment) ==
    monthly_payment <= 0 \/ debt.balance <= 0

EmptyPlan(debt) ==
    [debt_id |-> debt.id, monthly_payment |-> 0, payoff_months |-> 0,
     total_interest |-> 0, total_payments |-> 0]

\* the locals before the loop; iters and last_* are the record of the
\* breakdown (how many months were simulated, and the last one)
PayoffStart(debt) ==
    [kind |-> "payoff",
     balance |-> debt.balance, total_interest |-> 0, months |-> 0,
     total_payments_actual |-> 0, broke |-> FALSE,
     iters |-> 0, last_payment |-> 0, last_interest |-> 0,
     last_principal |-> 0, prev_balance |-> debt.balance]

\* mutant: the loop without its months < 600 bound
PayoffLoopCond_NoHorizon(s) ==
    s.balance > EPSILON

\* mutant: the loop running to a balance of exactly zero
PayoffLoopCond_NoEpsilon(s) ==
    s.balance > 0 /\ s.months < max_months

\* while balance > 0.01 and months < 600
PayoffLoopCond(s) ==
    s.balance > EPSILON /\ s.months < max_months

\* mutant: the minimum of a card held at the payment of the call
CurrentPayment_HeldFixed(debt, monthly_payment, pct, version, balance, interest_payment) ==
    monthly_payment

\* the payment of the month: recomputed for a card paying its minimum
CurrentPayment(debt, monthly_payment, pct, version, balance, interest_payment) ==
    IF version = "backend" /\ debt.debt_type = "card" /\ Truthy(pct)
       /\ monthly_payment = debt.minimum_payment
    THEN Min(Max((balance * pct) \div 100, MIN_CARD_PAYMENT),
             balance + interest_payment)
    ELSE monthly_payment

\* mutant: the break without the sentinel month count
PayoffSentinel_KeepsMonths(debt, version, s, current_payment, interest_payment, principal_payment) ==
    [s EXCEPT !.months = s.months + 1,
              !.total_interest = debt.balance * PENALTY_FACTOR,
              !.total_payments_actual = debt.balance * PENALTY_FACTOR,
              !.broke = TRUE,
              !.iters = s.iters + 1,
              !.last_payment = current_payment,
              !.last_interest = interest_payment,
              !.last_principal = principal_payment,
              !.prev_balance = s.balance]

\* if principal_payment <= 0: months = 999, penalty totals, break
PayoffSentinel(debt, version, s, current_payment, interest_payment, principal_payment) ==
    [s EXCEPT !.months = NEVER_PAYS_OFF,
              !.total_interest = debt.balance * PENALTY_FACTOR,
              !.total_payments_actual =
                  IF version = "backend" THEN debt.balance * PENALTY_FACTOR
                  ELSE s.total_payments_actual,
              !.broke = TRUE,
              !.iters = s.iters + 1,
              !.last_payment = current_payment,
              !.last_interest = interest_payment,
              !.last_principal = principal_payment,
              !.prev_balance = s.balance]

\* one iteration of the loop body
PayoffStep(debt, monthly_payment, pct, version, s) ==
    LET interest_payment == MonthlyInterest(s.balance, debt.annual_rate_pct)
        current_payment ==
            CurrentPayment(debt, monthly_payment, pct, version, s.balance,
                           interest_payment)
        principal_payment == Min(current_payment - interest_payment, s.balance)
    IN  IF principal_payment <= 0
        THEN PayoffSentinel(debt, version, s, current_payment,
                            interest_payment, principal_payment)
        ELSE [s EXCEPT !.months = s.months + 1,
                       !.total_interest = s.total_interest + interest_payment,
                       !.balance = s.balance - principal_payment,
                       !.total_payments_actual =
                           s.total_payments_actual + current_payment,
                       !.iters = s.iters + 1,
                       !.last_payment = current_payment,
                       !.last_interest = interest_payment,
                       !.last_principal = principal_payment,
                       !.prev_balance = s.balance]

\* the PaymentPlan built after the loop
PayoffPlan(debt, monthly_payment, version, s) ==
    [debt_id |-> debt.id, monthly_payment |-> monthly_payment,
     payoff_months |-> s.months,
     total_interest |-> s.total_interest,
     total_payments |->
         IF version = "backend" THEN s.total_payments_actual
         ELSE monthly_payment * s.months]

RECURSIVE PayoffLoop(_, _, _, _, _)
PayoffLoop(debt, monthly_payment, pct, version, s) ==
    IF PayoffLoopCond(s) /\ ~s.broke
    THEN PayoffLoop(debt, monthly_payment, pct, version,
                    PayoffStep(debt, monthly_payment, pct, version, s))
    ELSE s

\* the whole call, as the scenario builders use it
calculate_debt_payoff(d, debt, monthly_payment, version) ==
    IF PayoffEarlyReturn(debt, monthly_payment) THEN EmptyPlan(debt)
    ELSE PayoffPlan(debt, monthly_payment, version,
                    PayoffLoop(debt, monthly_payment,
                               CardMinPaymentPct(d, debt.id), version,
                               PayoffStart(debt)))

----------------------------------------------------------------------------
(* DebtCalculator.calculate_minimum_payment_scenario *)

RECURSIVE SumField(_, _)
SumField(plans, f) ==
    IF Len(plans) = 0 THEN 0
    ELSE plans[1][f] + SumField(Tail(plans), f)

RECURSIVE MaxField(_, _)
MaxField(plans, f) ==
    IF Len(plans) = 0 THEN 0
    ELSE Max(plans[1][f], MaxField(Tail(plans), f))

Description(text, amount) == [text |-> text, amount |-> amount]

calculate_minimum_payment_scenario(d) ==
    LET debts == get_customer_debts(d)
        payment_plans ==
            [i \in 1..Len(debts) |->
                calculate_debt_payoff(d, debts[i], debts[i].minimum_payment,
                                      "backend")]
    IN  [scenario_name |-> "Pago Minimo",
         total_monthly_payment |-> SumField(payment_plans, "monthly_payment"),
         total_payoff_months |-> MaxField(payment_plans, "payoff_months"),
         total_interest |-> SumField(payment_plans, "total_interest"),
         total_payments |-> SumField(payment_plans, "total_payments"),
         savings_vs_minimum |-> 0,
         payment_plans |-> payment_plans,
         description |-> Description("solo se pagan los montos minimos", 0)]

----------------------------------------------------------------------------
(* DebtCalculator.calculate_optimized_scenario *)

\* x goes behind every element whose rate is at least its own
RECURSIVE InsertByRate(_, _)
InsertByRate(s, x) ==
    IF Len(s) = 0 THEN <<x>>
    ELSE IF Head(s).annual_rate_pct >= x.annual_rate_pct
         THEN <<Head(s)>> \o InsertByRate(Tail(s), x)
         ELSE <<x>> \o s

\* sorted(debts, key=lambda x: x.annual_rate_pct, reverse=True): stable
RECURSIVE SortByRateDesc(_)
SortByRateDesc(debts) ==
    IF Len(debts) = 0 THEN <<>>
    ELSE InsertByRate(SortByRateDesc(SubSeq(debts, 1, Len(debts) - 1)),
                      debts[Len(debts)])

\* extra_payment = max(0, available_budget - minimum_total)
ExtraPayment(debts, available_budget) ==
    Max(0, available_budget - SumField(debts, "minimum_payment"))

\* mutant: the test that misses an extra payment of exactly zero
NoExtraAvailable_Strict(extra_payment) == extra_payment < 0

\* if extra_payment <= 0: return the minimum scenario, renamed
NoExtraAvailable(extra_payment) == extra_payment <= 0

\* a debt that is not visited in a month leaves an empty row
EmptyRow ==
    [active |-> FALSE, start_balance |-> 0, interest |-> 0, minimum |-> 0,
     payment |-> 0, principal |-> 0, extra |-> 0, budget_left |-> 0]

\* the locals before the loop.  Per debt, in the order of sorted_debts:
\* paid, interest_sum, n_details summarise monthly_breakdown_all; rows is
\* its part for the running month; left_after_minimums,
\* balances_after_minimums, prev_balances, first_paid_off, run_receiver
\* and prev_run_receiver record the history of the run: the budget and
\* the balances between the two passes, the balances before the month,
\* the month each debt was first paid off in, and the debt that got the
\* extra payment last, since the last month in which a debt was paid off.
AvalancheStart(d, debts, available_budget) ==
    LET sorted_debts == SortByRateDesc(debts)
        n == Len(sorted_debts)
    IN  [kind |-> "avalanche",
         sorted_debts |-> sorted_debts,
         available_budget |-> available_budget,
         extra_payment |-> ExtraPayment(debts, available_budget),
         debt_balances |-> [i \in 1..n |-> sorted_debts[i].balance],
         debt_paid_off_month |-> [i \in 1..n |-> None],
         total_interest_paid |-> 0,
         total_amount_paid |-> 0,
         month |-> 0,
         remaining_payment |-> 0,
         paid |-> [i \in 1..n |-> 0],
         interest_sum |-> [i \in 1..n |-> 0],
         n_details |-> [i \in 1..n |-> 0],
         rows |-> [i \in 1..n |-> EmptyRow],
         extra_to |-> 0,
         left_after_minimums |-> 0,
         balances_after_minimums |-> [i \in 1..n |-> sorted_debts[i].balance],
         first_paid_off |-> [i \in 1..n |-> None],
         prev_balances |-> [i \in 1..n |-> sorted_debts[i].balance],
         prev_run_receiver |-> 0,
         run_receiver |-> 0]

\* while any(balance > 0.01 ...) and month < max_months
AvalancheLoopCond(s) ==
    /\ {i \in 1..Len(s.debt_balances) : s.debt_balances[i] > EPSILON} # {}
    /\ s.month < max_months

\* mutant: the first pass visiting the debts already paid off
ActiveInFirstPass_All(balance) == balance >= 0

\* first pass: if debt_balances[debt.id] > 0.01
ActiveInFirstPass(balance) == balance > EPSILON

\* the minimum of the month: for a card with a percentage, re-derived
MonthMinimum(d, debt, balance, interest) ==
    LET pct == CardMinPaymentPct(d, debt.id)
    IN  IF debt.debt_type = "card" /\ Truthy(pct)
        THEN Min(Max((balance * pct) \div 100, MIN_CARD_PAYMENT),
                 balance + interest)
        ELSE debt.minimum_payment

\* payment_to_debt = min(min_payment, remaining_payment, balance + interest)
PaymentToDebt(min_payment, remaining_payment, balance, interest) ==
    Min(Min(min_payment, remaining_payment), balance + interest)

\* mutant: a payment below the interest adding the rest to the balance
FirstPassOne_DebtGrows(d, s, i) ==
    LET debt == s.sorted_debts[i]
        balance == s.debt_balances[i]
        interest == MonthlyInterest(balance, debt.annual_rate_pct)
        min_payment == MonthMinimum(d, debt, balance, interest)
        payment_to_debt ==
            PaymentToDebt(min_payment, s.remaining_payment, balance, interest)
        principal == payment_to_debt - interest
        left == balance - principal
        done == left <= EPSILON
    IN  IF ~ActiveInFirstPass(balance) THEN s
        ELSE [s EXCEPT
                !.debt_balances[i] = IF done THEN 0 ELSE left,
                !.debt_paid_off_month[i] = IF done THEN s.month ELSE @,
                !.first_paid_off[i] =
                    IF done /\ @ = None THEN s.month ELSE @,
                !.total_interest_paid = @ + interest,
                !.total_amount_paid = @ + payment_to_debt,
                !.remaining_payment = @ - payment_to_debt,
                !.paid[i] = @ + payment_to_debt,
                !.interest_sum[i] = @ + interest,
                !.n_details[i] = @ + 1,
                !.rows[i] = [active |-> TRUE, start_balance |-> balance,
                             interest |-> interest, minimum |-> min_payment,
                             payment |-> payment_to_debt,
                             principal |-> principal, extra |-> 0,
                             budget_left |-> s.remaining_payment]]

\* the first pass on debt i of sorted_debts
FirstPassOne(d, s, i) ==
    LET debt == s.sorted_debts[i]
        balance == s.debt_balances[i]
        interest == MonthlyInterest(balance, debt.annual_rate_pct)
        min_payment == MonthMinimum(d, debt, balance, interest)
        payment_to_debt ==
            PaymentToDebt(min_payment, s.remaining_payment, balance, interest)
        principal == Max(0, payment_to_debt - interest)
        left == balance - principal
        done == left <= EPSILON
    IN  IF ~ActiveInFirstPass(balance) THEN s
        ELSE [s EXCEPT
                !.debt_balances[i] = IF done THEN 0 ELSE left,
                !.debt_paid_off_month[i] = IF done THEN s.month ELSE @,
                !.first_paid_off[i] =
                    IF done /\ @ = None THEN s.month ELSE @,
                !.total_interest_paid = @ + interest,
                !.total_amount_paid = @ + payment_to_debt,
                !.remaining_payment = @ - payment_to_debt,
                !.paid[i] = @ + payment_to_debt,
                !.interest_sum[i] = @ + interest,
                !.n_details[i] = @ + 1,
                !.rows[i] = [active |-> TRUE, start_balance |-> balance,
                             interest |-> interest, minimum |-> min_payment,
                             payment |-> payment_to_debt,
                             principal |-> principal, extra |-> 0,
                             budget_left |-> s.remaining_payment]]

RECURSIVE FirstPass(_, _, _)
FirstPass(d, s, i) ==
    IF i > Len(s.sorted_debts) THEN s
    ELSE FirstPass(d, FirstPassOne(d, s, i), i + 1)

\* mutant: the extra payment going to the largest open balance
ExtraTarget_LargestBalance(s) ==
    IF s.remaining_payment > 0
       /\ \E i \in 1..Len(s.debt_balances) : s.debt_balances[i] > EPSILON
    THEN CHOOSE i \in 1..Len(s.debt_balances) :
            /\ s.debt_balances[i] > EPSILON
            /\ \A j \in 1..Len(s.debt_balances) :
                   \/ s.debt_balances[j] < s.debt_balances[i]
                   \/ (s.debt_balances[j] = s.debt_balances[i] /\ i <= j)
    ELSE 0

\* second pass: the first debt of sorted_debts with balance > 0.01, when
\* remaining_payment > 0; 0 when there is none
ExtraTarget(s) ==
    IF s.remaining_payment > 0
       /\ \E i \in 1..Len(s.debt_balances) : s.debt_balances[i] > EPSILON
    THEN CHOOSE i \in 1..Len(s.debt_balances) :
            /\ s.debt_balances[i] > EPSILON
            /\ \A j \in 1..(i - 1) : ~(s.debt_balances[j] > EPSILON)
    ELSE 0

\* mutant: the extra payment left out of total_amount_paid
SecondPass_ExtraUncounted(s) ==
    LET i == ExtraTarget(s)
        extra_payment_to_debt == Min(s.remaining_payment, s.debt_balances[i])
        left == s.debt_balances[i] - extra_payment_to_debt
        done == left <= EPSILON
    IN  IF i = 0 THEN [s EXCEPT !.extra_to = 0]
        ELSE [s EXCEPT
                !.debt_balances[i] = IF done THEN 0 ELSE left,
                !.debt_paid_off_month[i] = IF done THEN s.month ELSE @,
                !.first_paid_off[i] =
                    IF done /\ @ = None THEN s.month ELSE @,
                !.remaining_payment = @ - extra_payment_to_debt,
                !.paid[i] = @ + extra_payment_to_debt,
                !.rows[i].payment = @ + extra_payment_to_debt,
                !.rows[i].principal = @ + extra_payment_to_debt,
                !.rows[i].extra = extra_payment_to_debt,
                !.extra_to = i]

\* mutant: the second pass handing out the whole budget again
SecondPass_WholeBudget(s) ==
    LET i == ExtraTarget(s)
        extra_payment_to_debt == Min(s.available_budget, s.debt_balances[i])
        left == s.debt_balances[i] - extra_payment_to_debt
        done == left <= EPSILON
    IN  IF i = 0 THEN [s EXCEPT !.extra_to = 0]
        ELSE [s EXCEPT
                !.debt_balances[i] = IF done THEN 0 ELSE left,
                !.debt_paid_off_month[i] = IF done THEN s.month ELSE @,
                !.first_paid_off[i] =
                    IF done /\ @ = None THEN s.month ELSE @,
                !.total_amount_paid = @ + extra_payment_to_debt,
                !.remaining_payment = @ - extra_payment_to_debt,
                !.paid[i] = @ + extra_payment_to_debt,
                !.rows[i].payment = @ + extra_payment_to_debt,
                !.rows[i].principal = @ + extra_payment_to_debt,
                !.rows[i].extra = extra_payment_to_debt,
                !.extra_to = i]

\* extra_payment_to_debt = min(remaining_payment, debt_balances[debt.id])
SecondPass(s) ==
    LET i == ExtraTarget(s)
        extra_payment_to_debt == Min(s.remaining_payment, s.debt_balances[i])
        left == s.debt_balances[i] - extra_payment_to_debt
        done == left <= EPSILON
    IN  IF i = 0 THEN [s EXCEPT !.extra_to = 0]
        ELSE [s EXCEPT
                !.debt_balances[i] = IF done THEN 0 ELSE left,
                !.debt_paid_off_month[i] = IF done THEN s.month ELSE @,
                !.first_paid_off[i] =
                    IF done /\ @ = None THEN s.month ELSE @,
                !.total_amount_paid = @ + extra_payment_to_debt,
                !.remaining_payment = @ - extra_payment_to_debt,
                !.paid[i] = @ + extra_payment_to_debt,
                !.rows[i].payment = @ + extra_payment_to_debt,
                !.rows[i].principal = @ + extra_payment_to_debt,
                !.rows[i].extra = extra_payment_to_debt,
                !.extra_to = i]

\* the debts whose payoff was recorded in the running month
PaidOffThisMonth(s) ==
    {i \in 1..Len(s.sorted_debts) : s.debt_paid_off_month[i] = s.month}

\* one iteration of the loop body
AvalancheStep(d, s) ==
    LET s0 == [s EXCEPT !.month = @ + 1,
                        !.remaining_payment = s.available_budget,
                        !.rows = [i \in 1..Len(s.sorted_debts) |-> EmptyRow],
                        !.prev_balances = s.debt_balances,
                        !.prev_run_receiver = s.run_receiver]
        s1 == FirstPass(d, s0, 1)
        s2 == SecondPass(s1)
    IN  [s2 EXCEPT
          !.left_after_minimums = s1.remaining_payment,
          !.balances_after_minimums = s1.debt_balances,
          !.run_receiver =
            IF PaidOffThisMonth(s2) # {} THEN 0
            ELSE IF s2.extra_to # 0 THEN s2.extra_to
            ELSE @]

\* the PaymentPlan of debt i after the loop
AvalanchePlan(s, i) ==
    LET debt == s.sorted_debts[i]
        payoff_month ==
            IF s.debt_paid_off_month[i] # None THEN s.debt_paid_off_month[i]
            ELSE s.month
    IN  IF s.n_details[i] > 0
        THEN [debt_id |-> debt.id,
              monthly_payment |-> s.paid[i] \div s.n_details[i],
              payoff_months |-> payoff_month,
              total_interest |-> s.interest_sum[i],
              total_payments |-> s.paid[i]]
        ELSE [debt_id |-> debt.id, monthly_payment |-> debt.minimum_payment,
              payoff_months |-> 0, total_interest |-> 0, total_payments |-> 0]

\* the ScenarioResult after the loop
OptimizedResult(d, s) ==
    LET minimum_scenario == calculate_minimum_payment_scenario(d)
    IN  [scenario_name |-> "Plan Optimizado",
         total_monthly_payment |-> s.available_budget,
         total_payoff_months |-> s.month,
         total_interest |-> s.total_interest_paid,
         total_payments |-> s.total_amount_paid,
         savings_vs_minimum |->
             minimum_scenario.total_payments - s.total_amount_paid,
         payment_plans |->
             [i \in 1..Len(s.sorted_debts) |-> AvalanchePlan(s, i)],
         description |->
             Description("metodo avalancha con cascada", s.extra_payment)]

\* the result when no extra payment is available
NoExtraResult(d) ==
    [calculate_minimum_payment_scenario(d) EXCEPT
        !.scenario_name = "Plan Optimizado",
        !.description = Description("sin flujo extra disponible", 0)]

----------------------------------------------------------------------------
(* models/payment.py: BankOffer *)

MkOffer(id, types, cap, rate, term) ==
    [id |-> id, product_types_eligible |-> types,
     max_consolidated_balance |-> cap, new_rate_pct |-> rate,
     max_term_months |-> term]

\* the stored offers the runs draw from: for both kinds, for cards only,
\* for loans with a cap between the loans, with a cap below them, and two
\* offers that cannot be used (no term, no cap)
OfferCatalogue ==
    << MkOffer("O1", {"loan", "card"}, 2000000, 10, 24),
       MkOffer("O2", {"card"}, 1000000, 8, 12),
       MkOffer("O3", {"loan"}, 1100000, 15, 36),
       MkOffer("O4", {"loan"}, 500000, 6, 12),
       MkOffer("O5", {"loan", "card"}, 2000000, 5, 0),
       MkOffer("O6", {"loan", "card"}, 0, 4, 12),
       MkOffer("unknown", {"loan", "card"}, 2000000, 12, 24) >>

\* BankOffer.calculate_new_payment
calculate_new_payment(offer, consolidated_balance) ==
    IF offer.max_term_months <= 0 \/ consolidated_balance <= 0 THEN 0
    ELSE IF offer.new_rate_pct = 0
         THEN consolidated_balance \div offer.max_term_months
         ELSE AmortizedPayment(consolidated_balance, offer.new_rate_pct,
                               offer.max_term_months)

----------------------------------------------------------------------------
(* DebtCalculator.calculate_optimized_scenario as its callers use it *)

RECURSIVE AvalancheLoop(_, _)
AvalancheLoop(d, s) ==
    IF AvalancheLoopCond(s) THEN AvalancheLoop(d, AvalancheStep(d, s))
    ELSE s

calculate_optimized_scenario(d) ==
    LET debts == get_customer_debts(d)
    IN  IF d.cashflow = None THEN calculate_minimum_payment_scenario(d)
        ELSE IF NoExtraAvailable(ExtraPayment(debts, d.cashflow))
        THEN NoExtraResult(d)
        ELSE OptimizedResult(d, AvalancheLoop(d, AvalancheStart(d, debts,
                                                               d.cashflow)))

----------------------------------------------------------------------------
(* app/services/debt_calculator.py: the scenarios of the first calculator  *)

\* DebtCalculator.calculate_minimum_payment_scenario
legacy_calculate_minimum_payment_scenario(d) ==
    LET debts == get_customer_debts(d)
        payment_plans ==
            [i \in 1..Len(debts) |->
                calculate_debt_payoff(d, debts[i], debts[i].minimum_payment,
                                      "legacy")]
    IN  [scenario_name |-> "Pago Minimo",
         total_monthly_payment |-> SumField(payment_plans, "monthly_payment"),
         total_payoff_months |-> MaxField(payment_plans, "payoff_months"),
         total_interest |-> SumField(payment_plans, "total_interest"),
         total_payments |-> SumField(payment_plans, "total_payments"),
         savings_vs_minimum |-> 0,
         payment_plans |-> payment_plans,
         description |-> Description("solo se pagan los montos minimos", 0)]

\* x goes behind every element whose priority_score is at least its own
RECURSIVE InsertByPriority(_, _)
InsertByPriority(s, x) ==
    IF Len(s) = 0 THEN <<x>>
    ELSE IF Head(s).priority_score >= x.priority_score
         THEN <<Head(s)>> \o InsertByPriority(Tail(s), x)
         ELSE <<x>> \o s

\* sorted(debts, key=lambda x: x.priority_score, reverse=True): stable
RECURSIVE SortByPriorityDesc(_)
SortByPriorityDesc(debts) ==
    IF Len(debts) = 0 THEN <<>>
    ELSE InsertByPriority(SortByPriorityDesc(SubSeq(debts, 1, Len(debts) - 1)),
                          debts[Len(debts)])

\* for debt in sorted_debts: the whole of the remaining extra, up to the
\* balance, goes on top of the minimum payment of the debt
RECURSIVE LegacyOptimizedPlans(_, _, _)
LegacyOptimizedPlans(d, sorted_debts, remaining_extra) ==
    IF Len(sorted_debts) = 0 THEN <<>>
    ELSE LET debt == Head(sorted_debts)
             extra_for_debt == Min(remaining_extra, debt.balance)
             monthly_payment == debt.minimum_payment + extra_for_debt
         IN  << calculate_debt_payoff(d, debt, monthly_payment, "legacy") >>
             \o LegacyOptimizedPlans(d, Tail(sorted_debts),
                                     remaining_extra - extra_for_debt)

\* DebtCalculator.calculate_optimized_scenario
legacy_calculate_optimized_scenario(d) ==
    IF d.cashflow = None THEN legacy_calculate_minimum_payment_scenario(d)
    ELSE LET debts == get_customer_debts(d)
             extra_payment == ExtraPayment(debts, d.cashflow)
             payment_plans ==
                 LegacyOptimizedPlans(d, SortByPriorityDesc(debts),
                                      extra_payment)
             total_interest == SumField(payment_plans, "total_interest")
             minimum_scenario == legacy_calculate_minimum_payment_scenario(d)
         IN  [scenario_name |-> "Plan Optimizado",
              total_monthly_payment |->
                  SumField(payment_plans, "monthly_payment"),
              total_payoff_months |-> MaxField(payment_plans, "payoff_months"),
              total_interest |-> total_interest,
              total_payments |-> SumField(payment_plans, "total_payments"),
              savings_vs_minimum |->
                  minimum_scenario.total_interest - total_interest,
              payment_plans |-> payment_plans,
              description |->
                  Description("plan optimizado priorizando mayor tasa", 0)]

----------------------------------------------------------------------------
(* DebtCalculator.calculate_consolidation_scenario *)

\* the place in the table of the first offer with the lowest new_rate_pct:
\* min(offers, key=lambda x: x.new_rate_pct)
MinRateOffer(table) ==
    CHOOSE k \in 1..Len(table) :
        /\ \A j \in 1..Len(table) :
               table[k].new_rate_pct <= table[j].new_rate_pct
        /\ \A j \in 1..(k - 1) :
               table[j].new_rate_pct > table[k].new_rate_pct

\* the place in the table of the first offer with this id, 0 when there is
\* none: db.query(BankOffer).filter(BankOffer.id == best_offer_id).first()
OfferById(table, id) ==
    IF \E k \in 1..Len(table) : table[k].id = id
    THEN CHOOSE k \in 1..Len(table) :
            /\ table[k].id = id
            /\ \A j \in 1..(k - 1) : table[j].id # id
    ELSE 0

\* the place of the offer the scenario is computed with, or the reason why
\* there is none.  given: eligible_offers_data is not None
BestOffer(table, given, eligible_offers_data) ==
    IF ~given
    THEN IF Len(table) = 0
         THEN [offer |-> 0, path |-> "no_offers"]
         ELSE [offer |-> MinRateOffer(table), path |-> "offer"]
    ELSE IF Len(eligible_offers_data) = 0
         THEN [offer |-> 0, path |-> "no_eligible_offers"]
         ELSE IF OfferById(table, eligible_offers_data[1]) = 0
              THEN [offer |-> 0, path |-> "offer_not_found"]
              ELSE [offer |-> OfferById(table, eligible_offers_data[1]),
                    path |-> "offer"]

\* if debt.debt_type in best_offer.product_types_eligible
TypeEligible(debt, offer) == debt.debt_type \in offer.product_types_eligible

RECURSIVE FilterEligible(_, _, _)
FilterEligible(debts, offer, wanted) ==
    IF Len(debts) = 0 THEN <<>>
    ELSE (IF TypeEligible(Head(debts), offer) = wanted THEN <<Head(debts)>>
          ELSE <<>>) \o FilterEligible(Tail(debts), offer, wanted)

\* mutant: a debt fits whenever it is below the offer's whole cap
Fits_IgnoresUsed(debt, remaining_capacity, offer) ==
    debt.balance <= offer.max_consolidated_balance

\* if debt.balance <= remaining_capacity
Fits(debt, remaining_capacity, offer) == debt.balance <= remaining_capacity

\* for debt in consolidatable_debts (sorted): take it when it fits, else
\* append it to unconsolidated_debts and go on
RECURSIVE GreedyFit(_, _, _, _, _)
GreedyFit(sorted, offer, consolidated, unconsolidated, remaining_capacity) ==
    IF Len(sorted) = 0
    THEN [consolidated |-> consolidated, unconsolidated |-> unconsolidated]
    ELSE IF Fits(Head(sorted), remaining_capacity, offer)
         THEN GreedyFit(Tail(sorted), offer,
                        Append(consolidated, Head(sorted)), unconsolidated,
                        remaining_capacity - Head(sorted).balance)
         ELSE GreedyFit(Tail(sorted), offer, consolidated,
                        Append(unconsolidated, Head(sorted)),
                        remaining_capacity)

\* mutant: the debts of another kind forgotten when the cap is exceeded
Partition_DropsOthers(debts, offer) ==
    LET consolidatable == FilterEligible(debts, offer, TRUE)
        others == FilterEligible(debts, offer, FALSE)
    IN  IF SumField(consolidatable, "balance") > offer.max_consolidated_balance
        THEN GreedyFit(SortByRateDesc(consolidatable), offer, <<>>, <<>>,
                       offer.max_consolidated_balance)
        ELSE [consolidated |-> consolidatable, unconsolidated |-> others]

\* consolidatable_debts and unconsolidated_debts before the payments
Partition(debts, offer) ==
    LET consolidatable == FilterEligible(debts, offer, TRUE)
        others == FilterEligible(debts, offer, FALSE)
    IN  IF SumField(consolidatable, "balance") > offer.max_consolidated_balance
        THEN GreedyFit(SortByRateDesc(consolidatable), offer, <<>>, others,
                       offer.max_consolidated_balance)
        ELSE [consolidated |-> consolidatable, unconsolidated |-> others]

\* app/services/debt_calculator.py: the same split, the debts that do not
\* fit ahead of the debts of another kind
LegacyPartition(debts, offer) ==
    LET consolidatable == FilterEligible(debts, offer, TRUE)
        others == FilterEligible(debts, offer, FALSE)
    IN  IF SumField(consolidatable, "balance") > offer.max_consolidated_balance
        THEN LET fit == GreedyFit(SortByRateDesc(consolidatable), offer,
                                  <<>>, <<>>, offer.max_consolidated_balance)
             IN  [consolidated |-> fit.consolidated,
                  unconsolidated |-> fit.unconsolidated \o others]
        ELSE [consolidated |-> consolidatable, unconsolidated |-> others]

\* payment_amount of an unconsolidated debt when there is a cashflow record
PaymentAmount(debt, remaining_budget) ==
    IF remaining_budget > debt.minimum_payment
    THEN Min(remaining_budget,
             debt.minimum_payment + (remaining_budget - debt.minimum_payment))
    ELSE debt.minimum_payment

\* for debt in unconsolidated_debts: the plan and the payment of each
RECURSIVE UnconsolidatedPlans(_, _, _)
UnconsolidatedPlans(d, debts, remaining_budget) ==
    IF Len(debts) = 0 THEN <<>>
    ELSE LET payment_amount ==
                 IF d.cashflow # None
                 THEN PaymentAmount(Head(debts), remaining_budget)
                 ELSE Head(debts).minimum_payment
         IN  << [plan |-> calculate_debt_payoff(d, Head(debts),
                                                payment_amount, "backend"),
                 payment_amount |-> payment_amount] >>
             \o UnconsolidatedPlans(d, Tail(debts),
                                    Max(0, remaining_budget - payment_amount))

\* the description of a consolidation: the offer, its rate and term, the
\* debts consolidated and the debts left out
ConsolidationDescription(offer, part) ==
    [text |-> "consolidacion con oferta", amount |-> SumField(part.consolidated, "balance"),
     offer_id |-> offer.id, rate |-> offer.new_rate_pct,
     term |-> offer.max_term_months,
     consolidated |-> [i \in 1..Len(part.consolidated) |-> part.consolidated[i].id],
     unconsolidated |-> [i \in 1..Len(part.unconsolidated) |-> part.unconsolidated[i].id]]

\* the ScenarioResult of a consolidation with this offer and partition
ConsolidationResult(d, offer, part) ==
    LET total_consolidatable == SumField(part.consolidated, "balance")
        consolidated_payment ==
            calculate_new_payment(offer, total_consolidatable)
        consolidated_total_payments ==
            consolidated_payment * offer.max_term_months
        consolidated_interest ==
            consolidated_total_payments - total_consolidatable
        consolidated_plan ==
            [debt_id |-> "CONSOLIDATED",
             monthly_payment |-> consolidated_payment,
             payoff_months |-> offer.max_term_months,
             total_interest |-> consolidated_interest,
             total_payments |-> consolidated_total_payments]
        unconsolidated ==
            IF d.cashflow # None THEN SortByRateDesc(part.unconsolidated)
            ELSE part.unconsolidated
        rest == UnconsolidatedPlans(d, unconsolidated,
                                    d.cashflow - consolidated_payment)
        plans == [i \in 1..Len(rest) |-> rest[i].plan]
        total_payments ==
            consolidated_total_payments + SumField(plans, "total_payments")
    IN  [scenario_name |-> "Consolidacion",
         total_monthly_payment |->
             consolidated_payment + SumField(rest, "payment_amount"),
         total_payoff_months |->
             Max(offer.max_term_months, MaxField(plans, "payoff_months")),
         total_interest |->
             consolidated_interest + SumField(plans, "total_interest"),
         total_payments |-> total_payments,
         savings_vs_minimum |->
             calculate_minimum_payment_scenario(d).total_payments
             - total_payments,
         payment_plans |-> <<consolidated_plan>> \o plans,
         description |->
             ConsolidationDescription(
                 offer, [consolidated |-> part.consolidated,
                         unconsolidated |-> unconsolidated])]

\* the optimized scenario returned in place of a consolidation
FallbackResult(d, text) ==
    [calculate_optimized_scenario(d) EXCEPT
        !.scenario_name = "Consolidacion",
        !.description = Description(text, 0)]

\* the result for a customer without debts
NoDebtsResult ==
    [scenario_name |-> "Consolidacion", total_monthly_payment |-> 0,
     total_payoff_months |-> 0, total_interest |-> 0, total_payments |-> 0,
     savings_vs_minimum |-> 0, payment_plans |-> <<>>,
     description |-> Description("no hay deudas para consolidar", 0)]

FallbackText(path) ==
    CASE path = "no_offers" -> "no hay ofertas de consolidacion disponibles"
      [] path = "no_eligible_offers" -> "no hay ofertas de consolidacion elegibles"
      [] path = "offer_not_found" -> "error al obtener la oferta"
      [] OTHER -> "no hay deudas elegibles para consolidar"

NoOffer == MkOffer("none", {}, 0, 0, 0)
NoPartition == [consolidated |-> <<>>, unconsolidated |-> <<>>]

\* the whole call: the result, and the locals the result was built from
calculate_consolidation_scenario(d, table, given, eligible_offers_data) ==
    LET debts == get_customer_debts(d)
        best == BestOffer(table, given, eligible_offers_data)
        offer == IF best.offer = 0 THEN NoOffer ELSE table[best.offer]
        part == IF best.offer = 0 THEN NoPartition ELSE Partition(debts, offer)
        path ==
            IF Len(debts) = 0 THEN "no_debts"
            ELSE IF best.offer = 0 THEN best.path
            ELSE IF SumField(part.consolidated, "balance") <= 0
                 THEN "nothing_to_consolidate"
                 ELSE "consolidated"
    IN  [locals |->
            [kind |-> "consolidation", path |-> path,
             best_offer |-> IF path = "no_debts" THEN NoOffer ELSE offer,
             consolidated_debts |->
                 IF path = "no_debts" THEN <<>> ELSE part.consolidated,
             unconsolidated_debts |->
                 IF path = "no_debts" THEN <<>> ELSE part.unconsolidated],
         result |->
            IF path = "no_debts" THEN NoDebtsResult
            ELSE IF path = "consolidated"
                 THEN ConsolidationResult(d, offer, part)
                 ELSE FallbackResult(d, FallbackText(path))]

----------------------------------------------------------------------------
(* The eligibility analysis shared by the two services.  A result of the   *)
(* EligibilityAgent is an input: is_eligible and confidence_score, the     *)
(* score in tenths (7 = 0.7).                                              *)

\* eligibility.confidence_score >= 0.7
MIN_CONFIDENCE == 7

\* the offer_id batch_evaluate_offers reports for an offer converted with
\* BankOffer.to_dict: the dictionary has the key 'id' and no key 'offer_id',
\* and the agent reads offer.get('offer_id', 'unknown')
to_dict_offer_id(offer) == "unknown"

\* the offer_id reported for an offer converted with
\* EnhancedConsolidationService._offer_to_dict: "offer_id": offer.id
offer_to_dict_offer_id(offer) == offer.id

\* for offer_id, eligibility in eligibility_results: the results that are
\* eligible with confidence, with the first stored offer of the reported id
RECURSIVE EligibleOffers(_, _, _, _)
EligibleOffers(table, ids, eligibility, i) ==
    IF i > Len(table) THEN <<>>
    ELSE (IF /\ eligibility[i].is_eligible
             /\ eligibility[i].confidence_score >= MIN_CONFIDENCE
             /\ OfferById(table, ids[i]) # 0
          THEN << [offer_id |-> ids[i],
                   offer |-> OfferById(table, ids[i]),
                   eligibility |-> eligibility[i]] >>
          ELSE <<>>)
         \o EligibleOffers(table, ids, eligibility, i + 1)

----------------------------------------------------------------------------
(* FinancialAnalysisService._calculate_intelligent_consolidation_scenario  *)

\* "score": offer.new_rate_pct * (2 - eligibility.confidence_score), in
\* tenths
Score(table, item) ==
    table[item.offer].new_rate_pct * (20 - item.eligibility.confidence_score)

RECURSIVE InsertByScore(_, _, _)
InsertByScore(table, s, x) ==
    IF Len(s) = 0 THEN <<x>>
    ELSE IF Score(table, Head(s)) <= Score(table, x)
         THEN <<Head(s)>> \o InsertByScore(table, Tail(s), x)
         ELSE <<x>> \o s

\* eligible_offers_data.sort(key=lambda x: x["score"]): stable, ascending
RECURSIVE SortByScore(_, _)
SortByScore(table, data) ==
    IF Len(data) = 0 THEN <<>>
    ELSE InsertByScore(table,
                       SortByScore(table, SubSeq(data, 1, Len(data) - 1)),
                       data[Len(data)])

\* the offer ids of eligible_offers_data[:3]
BestOffersInfo(data) ==
    [i \in 1..Min(3, Len(data)) |-> data[i].offer_id]

\* the description that names an offer and the confidence of its eligibility
IntelligentDescription(table, item) ==
    [text |-> "consolidacion inteligente", offer_id |-> item.offer_id,
     confidence_score |-> item.eligibility.confidence_score,
     rate |-> table[item.offer].new_rate_pct,
     term |-> table[item.offer].max_term_months]

\* the "no consolidation available" ScenarioResult of the analysis service
NotAvailableResult(evaluated) ==
    [scenario_name |-> "Consolidacion", total_monthly_payment |-> 0,
     total_payoff_months |-> 0, total_interest |-> 0, total_payments |-> 0,
     savings_vs_minimum |-> 0, payment_plans |-> <<>>,
     description |-> Description("consolidacion no disponible", evaluated)]

NotAvailableLocals ==
    [kind |-> "consolidation", path |-> "not_available",
     best_offer |-> NoOffer, consolidated_debts |-> <<>>,
     unconsolidated_debts |-> <<>>]

\* the whole call.  profile: _get_customer_info found the customer record
calculate_intelligent_consolidation_scenario(d, table, profile, eligibility) ==
    IF ~profile
    THEN calculate_consolidation_scenario(d, table, FALSE, <<>>)
    ELSE LET ids == [i \in 1..Len(table) |-> to_dict_offer_id(table[i])]
             eligible_offers_data ==
                 SortByScore(table, EligibleOffers(table, ids, eligibility, 1))
         IN  IF Len(eligible_offers_data) > 0
             THEN LET scenario ==
                          calculate_consolidation_scenario(
                              d, table, TRUE,
                              BestOffersInfo(eligible_offers_data))
                  IN  [locals |-> scenario.locals,
                       result |->
                           [scenario.result EXCEPT
                               !.description =
                                   IntelligentDescription(
                                       table, eligible_offers_data[1])]]
             ELSE [locals |-> NotAvailableLocals,
                   result |-> NotAvailableResult(Len(table))]

----------------------------------------------------------------------------
(* EnhancedConsolidationService.calculate_intelligent_consolidation_scenario *)

\* offer_score(a) > offer_score(b), where offer_score is
\* (1 / (new_rate_pct + 1)) * 0.7 + confidence_score * 0.3: both sides times
\* 100 * (rate of a + 1) * (rate of b + 1)
HigherOfferScore(table, a, b) ==
    LET ra == table[a.offer].new_rate_pct + 1
        rb == table[b.offer].new_rate_pct + 1
    IN  70 * rb + 3 * a.eligibility.confidence_score * ra * rb
        > 70 * ra + 3 * b.eligibility.confidence_score * ra * rb

\* max(eligible_offers, key=offer_score): the first of the highest score
select_best_offer(table, eligible_offers) ==
    eligible_offers[
        CHOOSE k \in 1..Len(eligible_offers) :
            /\ \A j \in 1..Len(eligible_offers) :
                   ~HigherOfferScore(table, eligible_offers[j],
                                     eligible_offers[k])
            /\ \A j \in 1..(k - 1) :
                   HigherOfferScore(table, eligible_offers[k],
                                    eligible_offers[j])]

\* _create_no_consolidation_scenario: the optimized scenario renamed
create_no_consolidation_scenario(d) ==
    [calculate_optimized_scenario(d) EXCEPT
        !.scenario_name = "Consolidacion",
        !.description =
            Description("consolidacion no disponible actualmente", 0)]

\* the whole call: the scenario of the returned pair
calculate_enhanced_consolidation_scenario(d, table, eligibility) ==
    LET ids == [i \in 1..Len(table) |-> offer_to_dict_offer_id(table[i])]
        eligible_offers_with_analysis ==
            EligibleOffers(table, ids, eligibility, 1)
    IN  IF Len(eligible_offers_with_analysis) = 0
        THEN [locals |-> NotAvailableLocals,
              result |-> create_no_consolidation_scenario(d)]
        ELSE LET best == select_best_offer(table,
                                           eligible_offers_with_analysis)
                 base_scenario ==
                     calculate_consolidation_scenario(d, table, FALSE, <<>>)
             IN  [locals |-> base_scenario.locals,
                  result |->
                      [base_scenario.result EXCEPT
                          !.description =
                              IntelligentDescription(table, best)]]

----------------------------------------------------------------------------
(* The runs: one call of _calculate_debt_payoff on a stored debt, or one   *)
(* call of calculate_optimized_scenario for the customer, of the backend   *)
(* or of the first calculator.                                             *)

NoCall == [op |-> "none"]
NoResult == [kind |-> "none"]
NoLocals == [kind |-> "none"]

\* payments of a direct call: none, the debt's minimum, the first month's
\* interest, a thousandth more than it, and three fixed amounts
PaymentChoices(debt) ==
    {0, debt.minimum_payment,
     MonthlyInterest(debt.balance, debt.annual_rate_pct),
     MonthlyInterest(debt.balance, debt.annual_rate_pct) + 1,
     50000, 100000, 700000}

Versions == {"backend", "legacy"}

SingleDebtCustomers ==
    {c \in Customers : Len(c.loans) + Len(c.cards) = 1 /\ c.cashflow = None}

InitPayoff ==
    /\ db \in SingleDebtCustomers
    /\ offers = <<>>
    /\ \E payment \in PaymentChoices(get_customer_debts(db)[1]) :
       \E version \in Versions :
            call = [op |-> "payoff", debt |-> get_customer_debts(db)[1],
                    monthly_payment |-> payment, version |-> version]

InitScenario ==
    /\ db \in Customers
    /\ offers = <<>>
    /\ call = [op |-> "optimized"]

\* the cashflow records of the customers a consolidation is computed for
ConsolidationCashflows == {None, 150000, 400000}

\* the debts of the customers a consolidation is computed for
ConsolidationDebts == {"L1", "L2", "L4", "L5", "K2"}

ConsolidationCustomers ==
    {c \in Customers :
        /\ c.cashflow \in ConsolidationCashflows
        /\ \A i \in 1..Len(c.loans) : c.loans[i].id \in ConsolidationDebts
        /\ \A i \in 1..Len(c.cards) : c.cards[i].id \in ConsolidationDebts}

\* the stored offer tables, as places in OfferCatalogue
OfferTables ==
    {[i \in 1..Len(ix) |-> OfferCatalogue[ix[i]]] :
        ix \in {<<>>, <<1>>, <<2>>, <<3>>, <<4>>, <<1, 2>>, <<3, 4>>,
                <<1, 5>>, <<1, 6>>, <<2, 3>>, <<7>>, <<1, 7>>, <<7, 1>>}}

\* eligible_offers_data of a direct call: the offer ids of the table in any
\* order, one of them, none, or an id that is not stored
EligibleOffersChoices(table) ==
    {<<>>, <<"O9">>}
    \cup {<<table[i].id>> : i \in 1..Len(table)}
    \cup {<<table[p[1]].id, table[p[2]].id>> :
             p \in {q \in (1..Len(table)) \X (1..Len(table)) : q[1] # q[2]}}

InitConsolidation ==
    /\ db \in ConsolidationCustomers
    /\ offers \in OfferTables
    /\ \/ call = [op |-> "consolidation", given |-> FALSE,
                  eligible_offers_data |-> <<>>]
       \/ \E data \in EligibleOffersChoices(offers) :
             call = [op |-> "consolidation", given |-> TRUE,
                     eligible_offers_data |-> data]

\* the results of the EligibilityAgent for one offer
EligibilityChoices ==
    {[is_eligible |-> FALSE, confidence_score |-> 8],
     [is_eligible |-> TRUE, confidence_score |-> 5],
     [is_eligible |-> TRUE, confidence_score |-> 7],
     [is_eligible |-> TRUE, confidence_score |-> 10]}

InitAnalysis ==
    /\ db \in ConsolidationCustomers
    /\ offers \in OfferTables
    /\ \/ call = [op |-> "analysis", profile |-> FALSE, eligibility |-> <<>>]
       \/ \E eligibility \in [1..Len(offers) -> EligibilityChoices] :
             call = [op |-> "analysis", profile |-> TRUE,
                     eligibility |-> eligibility]

InitEnhanced ==
    /\ db \in ConsolidationCustomers
    /\ offers \in OfferTables
    /\ \E eligibility \in [1..Len(offers) -> EligibilityChoices] :
          call = [op |-> "enhanced", eligibility |-> eligibility]

InitLegacyScenario ==
    /\ db \in Customers
    /\ offers = <<>>
    /\ call = [op |-> "legacy_optimized"]

Init ==
    /\ InitPayoff \/ InitScenario \/ InitLegacyScenario
    /\ pc = "start"
    /\ pf = NoLocals
    /\ av = NoLocals
    /\ cs = NoLocals
    /\ result = NoResult

CallDebtPayoff ==
    /\ pc = "start"
    /\ call.op = "payoff"
    /\ IF PayoffEarlyReturn(call.debt, call.monthly_payment)
       THEN /\ pc' = "returned"
            /\ result' = EmptyPlan(call.debt)
            /\ pf' = pf
       ELSE /\ pc' = "payoff_loop"
            /\ pf' = PayoffStart(call.debt)
            /\ result' = result
    /\ UNCHANGED <<db, offers, call, av, cs>>

PayoffMonth ==
    /\ pc = "payoff_loop"
    /\ PayoffLoopCond(pf) /\ ~pf.broke
    /\ pf' = PayoffStep(call.debt, call.monthly_payment,
                        CardMinPaymentPct(db, call.debt.id), call.version, pf)
    /\ UNCHANGED <<db, offers, pc, call, av, cs, result>>

PayoffReturn ==
    /\ pc = "payoff_loop"
    /\ ~(PayoffLoopCond(pf) /\ ~pf.broke)
    /\ result' = PayoffPlan(call.debt, call.monthly_payment, call.version, pf)
    /\ pc' = "returned"
    /\ UNCHANGED <<db, offers, call, pf, av, cs>>

CallOptimized ==
    /\ pc = "start"
    /\ call.op = "optimized"
    /\ LET debts == get_customer_debts(db)
       IN  IF db.cashflow = None
           THEN /\ result' = calculate_minimum_payment_scenario(db)
                /\ pc' = "returned"
                /\ av' = av
           ELSE IF NoExtraAvailable(ExtraPayment(debts, db.cashflow))
           THEN /\ result' = NoExtraResult(db)
                /\ pc' = "returned"
                /\ av' = av
           ELSE /\ av' = AvalancheStart(db, debts, db.cashflow)
                /\ pc' = "avalanche_loop"
                /\ result' = result
    /\ UNCHANGED <<db, offers, call, pf, cs>>

AvalancheMonth ==
    /\ pc = "avalanche_loop"
    /\ AvalancheLoopCond(av)
    /\ av' = AvalancheStep(db, av)
    /\ UNCHANGED <<db, offers, pc, call, pf, cs, result>>

OptimizedReturn ==
    /\ pc = "avalanche_loop"
    /\ ~AvalancheLoopCond(av)
    /\ result' = OptimizedResult(db, av)
    /\ pc' = "returned"
    /\ UNCHANGED <<db, offers, call, pf, av, cs>>

CallConsolidation ==
    /\ pc = "start"
    /\ call.op = "consolidation"
    /\ LET r == calculate_consolidation_scenario(
                    db, offers, call.given, call.eligible_offers_data)
       IN  /\ cs' = r.locals
           /\ result' = r.result
    /\ pc' = "returned"
    /\ UNCHANGED <<db, offers, call, pf, av>>

CallIntelligentConsolidation ==
    /\ pc = "start"
    /\ call.op = "analysis"
    /\ LET r == calculate_intelligent_consolidation_scenario(
                    db, offers, call.profile, call.eligibility)
       IN  /\ cs' = r.locals
           /\ result' = r.result
    /\ pc' = "returned"
    /\ UNCHANGED <<db, offers, call, pf, av>>

CallEnhancedConsolidation ==
    /\ pc = "start"
    /\ call.op = "enhanced"
    /\ LET r == calculate_enhanced_consolidation_scenario(
                    db, offers, call.eligibility)
       IN  /\ cs' = r.locals
           /\ result' = r.result
    /\ pc' = "returned"
    /\ UNCHANGED <<db, offers, call, pf, av>>

CallLegacyOptimized ==
    /\ pc = "start"
    /\ call.op = "legacy_optimized"
    /\ result' = legacy_calculate_optimized_scenario(db)
    /\ pc' = "returned"
    /\ UNCHANGED <<db, offers, call, pf, av, cs>>

Next ==
    \/ CallDebtPayoff
    \/ PayoffMonth
    \/ PayoffReturn
    \/ CallOptimized
    \/ AvalancheMonth
    \/ OptimizedReturn
    \/ CallLegacyOptimized

Spec == Init /\ [][Next]_vars

----------------------------------------------------------------------------
(* The runs of the consolidation scenario: one call of                     *)
(* calculate_consolidation_scenario for the customer, directly or through  *)
(* one of the two services.                                                *)

InitServices ==
    /\ InitConsolidation \/ InitAnalysis \/ InitEnhanced
    /\ pc = "start"
    /\ pf = NoLocals
    /\ av = NoLocals
    /\ cs = NoLocals
    /\ result = NoResult

NextServices ==
    \/ CallConsolidation
    \/ CallIntelligentConsolidation
    \/ CallEnhancedConsolidation

SpecServices == InitServices /\ [][NextServices]_vars

----------------------------------------------------------------------------
(* The runs with a writer: one call of calculate_optimized_scenario while  *)
(* another session of the store changes the customer's debts.  The call    *)
(* carries, next to its arguments, the records as they were when it        *)
(* started.                                                                *)

\* the customers of these runs: a cashflow record and short payoffs
ConcurrentCustomers ==
    {c \in Customers :
        /\ c.cashflow \in {150000, 400000}
        /\ Len(c.loans) + Len(c.cards) > 0
        /\ \A i \in 1..Len(c.loans) : c.loans[i].id \in {"L1", "L2"}
        /\ \A i \in 1..Len(c.cards) : c.cards[i].id \in {"K2", "K4"}}

\* what a committed write of another session can leave in the store: a
\* payment of half the principal or balance posted to the first loan or
\* card, or the min_payment_pct of the first card raised to 10
StoreUpdates(d) ==
    (IF Len(d.loans) > 0
     THEN {[d EXCEPT !.loans[1].principal = @ \div 2]} ELSE {})
    \cup (IF Len(d.cards) > 0
          THEN {[d EXCEPT !.cards[1].balance = @ \div 2],
                [d EXCEPT !.cards[1].min_payment_pct = 10]}
          ELSE {})

InitConcurrent ==
    /\ db \in ConcurrentCustomers
    /\ offers = <<>>
    /\ call = [op |-> "optimized", snapshot |-> db]
    /\ pc = "start"
    /\ pf = NoLocals
    /\ av = NoLocals
    /\ cs = NoLocals
    /\ result = NoResult

\* a write is committed between two months of the running simulation
StoreUpdate ==
    /\ pc = "avalanche_loop"
    /\ db = call.snapshot
    /\ db' \in StoreUpdates(db)
    /\ UNCHANGED <<offers, pc, call, pf, av, cs, result>>

NextConcurrent ==
    \/ CallOptimized
    \/ AvalancheMonth
    \/ OptimizedReturn
    \/ StoreUpdate

SpecConcurrent == InitConcurrent /\ [][NextConcurrent]_vars

----------------------------------------------------------------------------
(* Properties of the single-debt payoff simulation *)

PayoffRunning == pf.kind = "payoff"
PayoffReturned == pc = "returned" /\ call.op = "payoff" /\ pf.kind = "payoff"
AvalancheRunning == av.kind = "avalanche"
OptimizedReturned == pc = "returned" /\ call.op = "optimized"

CeilDiv(a, b) == (a + b - 1) \div b

\* the month's payment is the fixed monthly_payment of the call
FixedPayment ==
    ~(call.version = "backend" /\ call.debt.debt_type = "card"
      /\ Truthy(CardMinPaymentPct(db, call.debt.id))
      /\ call.monthly_payment = call.debt.minimum_payment)

\* C1: neither simulation loop runs more than 600 times: the single-debt
\* loop has simulated at most 600 months and cannot go on once it has
\* simulated 600, and likewise the avalanche loop.
C1_LoopsStopAtHorizon ==
    /\ PayoffRunning =>
          /\ pf.iters <= max_months
          /\ (pf.iters = max_months => ~ENABLED PayoffMonth)
    /\ AvalancheRunning =>
          /\ av.month <= max_months
          /\ (av.month = max_months => ~ENABLED AvalancheMonth)

\* the single-debt loop has simulated all 600 months and balance is left
C1_Witness ==
    /\ pc = "payoff_loop" /\ pf.iters = max_months /\ pf.balance > EPSILON

\* C2: when the payment of a simulated month does not exceed the month's
\* interest, that month is the last one simulated and the plan returned has
\* payoff_months = 999 and total_interest = 10 * the original balance.
C2_NonAmortizingSentinel ==
    (PayoffRunning /\ pf.iters > 0 /\ pf.last_payment <= pf.last_interest) =>
        /\ pf.months = NEVER_PAYS_OFF
        /\ pf.total_interest = PENALTY_FACTOR * call.debt.balance
        /\ ~ENABLED PayoffMonth
        /\ pc = "returned" =>
              /\ result.payoff_months = NEVER_PAYS_OFF
              /\ result.total_interest = PENALTY_FACTOR * call.debt.balance

\* a positive payment below the first month's interest was returned from
C2_Witness ==
    /\ PayoffReturned
    /\ call.debt.balance > 0
    /\ pf.iters = 1
    /\ pf.last_payment > 0
    /\ pf.last_payment <= pf.last_interest
    /\ result.payoff_months = NEVER_PAYS_OFF

\* C3 (as claimed): a run that ends at the 600-month horizon with balance
\* above 0.01 returns the sentinel of a non-amortizing debt.
C3_HorizonReturnsSentinel ==
    /\ (PayoffReturned /\ ~pf.broke /\ pf.balance > EPSILON) =>
          /\ result.payoff_months = NEVER_PAYS_OFF
          /\ result.total_interest = PENALTY_FACTOR * call.debt.balance
    /\ (OptimizedReturned /\ AvalancheRunning
        /\ \E i \in 1..Len(av.debt_balances) : av.debt_balances[i] > EPSILON) =>
          result.total_payoff_months = NEVER_PAYS_OFF

\* C4 (as claimed): a debt paid off by payments that each exceeded the
\* month's interest has total_payments within 1 currency unit of
\* total_interest + the original balance.
C4_Conservation ==
    (PayoffReturned /\ call.debt.balance > 0 /\ ~pf.broke
     /\ pf.balance <= EPSILON) =>
        LET diff == result.total_payments
                    - (result.total_interest + call.debt.balance)
        IN  diff <= 1000 /\ diff >= -1000

----------------------------------------------------------------------------
(* Properties of the avalanche simulation *)

AvalancheMonthDone == AvalancheRunning /\ av.month > 0

DebtIndices == 1..Len(av.sorted_debts)

\* the debts with balance above 0.01 between the two passes
ActiveAfterMinimums ==
    {i \in DebtIndices : av.balances_after_minimums[i] > EPSILON}

\* the place of a debt of sorted_debts in the list the debts were read in
InputPosition(i) ==
    CHOOSE k \in 1..Len(get_customer_debts(db)) :
        get_customer_debts(db)[k].id = av.sorted_debts[i].id

\* i comes before j by priority score, ties by input order
OutranksByPriority(i, j) ==
    \/ av.sorted_debts[i].priority_score > av.sorted_debts[j].priority_score
    \/ /\ av.sorted_debts[i].priority_score = av.sorted_debts[j].priority_score
       /\ InputPosition(i) <= InputPosition(j)

\* C6 (as claimed): in a month with budget left after the minimum payments,
\* the leftover goes to the debt with the highest priority score among the
\* debts still active, ties broken by input order.
C6_ExtraToHighestPriority ==
    (AvalancheMonthDone /\ av.left_after_minimums > 0
     /\ ActiveAfterMinimums # {}) =>
        /\ av.extra_to \in ActiveAfterMinimums
        /\ \A j \in ActiveAfterMinimums : OutranksByPriority(av.extra_to, j)

\* C7: in a simulated month at most one debt is paid more than its minimum
\* of the month, and the debt that gets the extra payment is the one that
\* got it in the earlier months since the last month a debt was paid off in
\* (no debt paid off from the earlier month through this one).
C7_SingleStableReceiver ==
    AvalancheMonthDone =>
        /\ Cardinality({i \in DebtIndices :
                           av.rows[i].payment > av.rows[i].minimum}) <= 1
        /\ \A i \in DebtIndices : av.rows[i].extra > 0 => i = av.extra_to
        /\ (PaidOffThisMonth(av) = {} /\ av.extra_to # 0
            /\ av.prev_run_receiver # 0) =>
               av.extra_to = av.prev_run_receiver

\* two debts are open, and the one that got the extra payment in an earlier
\* month gets it again
C7_Witness ==
    /\ AvalancheMonthDone
    /\ av.month >= 2
    /\ Cardinality({i \in DebtIndices : av.debt_balances[i] > EPSILON}) >= 2
    /\ PaidOffThisMonth(av) = {}
    /\ av.extra_to # 0
    /\ av.rows[av.extra_to].payment > av.rows[av.extra_to].minimum
    /\ av.prev_run_receiver = av.extra_to

\* C8 (as claimed): every debt with balance above 0.01 at the start of a
\* month is paid at least its minimum of the month in the first pass, or
\* balance + interest when that is less.
C8_MinimumAlwaysPaid ==
    AvalancheMonthDone =>
        \A i \in DebtIndices :
            av.prev_balances[i] > EPSILON =>
                /\ av.rows[i].active
                /\ av.rows[i].payment - av.rows[i].extra
                       >= Min(av.rows[i].minimum,
                              av.rows[i].start_balance + av.rows[i].interest)

\* C9: a debt paid off in month m has balance zero from then on, its payoff
\* month stays m, in every later month it is not visited (no payment, no
\* interest, no extra), and its plan reports payoff_months = m.
C9_PaidOffStaysOut ==
    AvalancheRunning =>
        \A i \in DebtIndices :
            /\ (av.first_paid_off[i] = None) = (av.debt_paid_off_month[i] = None)
            /\ av.first_paid_off[i] # None =>
                  /\ av.debt_balances[i] = 0
                  /\ av.debt_paid_off_month[i] = av.first_paid_off[i]
                  /\ av.first_paid_off[i] < av.month =>
                        /\ ~av.rows[i].active
                        /\ av.rows[i].payment = 0
                        /\ av.rows[i].interest = 0
                        /\ av.extra_to # i
                        /\ av.prev_balances[i] = 0
                  /\ OptimizedReturned =>
                        result.payment_plans[i].payoff_months
                            = av.first_paid_off[i]

\* a debt was paid off at least two months before the run returned
C9_Witness ==
    /\ OptimizedReturned /\ AvalancheRunning
    /\ \E i \in DebtIndices :
          /\ av.first_paid_off[i] # None
          /\ av.first_paid_off[i] + 2 <= av.month
          /\ result.payment_plans[i].payoff_months = av.first_paid_off[i]

\* C10: with a cashflow record whose conservative cashflow is at most the
\* sum of the minimum payments, the optimized scenario returns the plans
\* and totals of the minimum-payment scenario, savings_vs_minimum = 0 and
\* the description that no extra cashflow is available.
C10_NoExtraIsMinimum ==
    (OptimizedReturned /\ db.cashflow # None
     /\ db.cashflow <= SumField(get_customer_debts(db), "minimum_payment")) =>
        LET minimum == calculate_minimum_payment_scenario(db)
        IN  /\ result.payment_plans = minimum.payment_plans
            /\ result.total_interest = minimum.total_interest
            /\ result.total_payments = minimum.total_payments
            /\ result.total_payoff_months = minimum.total_payoff_months
            /\ result.savings_vs_minimum = 0
            /\ result.scenario_name = "Plan Optimizado"
            /\ result.description.text = "sin flujo extra disponible"

\* a customer with debts and a positive cashflow equal to or below the
\* minimums got the result
C10_Witness ==
    /\ OptimizedReturned
    /\ db.cashflow # None /\ db.cashflow > 0
    /\ Len(get_customer_debts(db)) >= 2
    /\ db.cashflow <= SumField(get_customer_debts(db), "minimum_payment")
    /\ result.total_payments > 0
    /\ result.description.text = "sin flujo extra disponible"

----------------------------------------------------------------------------
(* Properties of the scenario totals *)

\* the customer has a cashflow record above the sum of the minimum payments
HasExtraBudget ==
    /\ db.cashflow # None
    /\ db.cashflow > SumField(get_customer_debts(db), "minimum_payment")

\* C11 (as claimed): with extra budget (conservative cashflow above the sum
\* of the minimum payments) the optimized scenario's total_interest is at
\* most the total_interest of the minimum-payment scenario of the customer.
C11_OptimizedInterestAtMostMinimum ==
    (OptimizedReturned /\ HasExtraBudget) =>
        result.total_interest
            <= calculate_minimum_payment_scenario(db).total_interest

----------------------------------------------------------------------------
(* Properties of the consolidation scenario *)

ConsolidationReturned == pc = "returned" /\ call.op = "consolidation"

\* the call went on to consolidate debts with the chosen offer
Consolidated == cs.kind = "consolidation" /\ cs.path = "consolidated"

\* the debts of the customer of the kinds the chosen offer accepts
ConsolidatableDebts ==
    FilterEligible(get_customer_debts(db), cs.best_offer, TRUE)

\* the consolidatable debts are more than the chosen offer's cap
OverCap ==
    SumField(ConsolidatableDebts, "balance")
        > cs.best_offer.max_consolidated_balance

\* C12 (as claimed): with extra budget the consolidation scenario's
\* total_interest is at most the total_interest of the minimum-payment
\* scenario of the customer, whatever offer was chosen.
C12_ConsolidationInterestAtMostMinimum ==
    (ConsolidationReturned /\ HasExtraBudget) =>
        result.total_interest
            <= calculate_minimum_payment_scenario(db).total_interest

\* C13: whenever the result holds a consolidated plan, the balances of the
\* consolidated debts add up to at most max_consolidated_balance of the
\* chosen offer; the split of app/services/debt_calculator.py obeys the
\* same cap for the same debts and offer.
C13_ConsolidatedWithinCap ==
    ConsolidationReturned =>
        /\ (\E i \in 1..Len(result.payment_plans) :
                result.payment_plans[i].debt_id = "CONSOLIDATED")
              = Consolidated
        /\ Consolidated =>
              /\ SumField(cs.consolidated_debts, "balance")
                     <= cs.best_offer.max_consolidated_balance
              /\ result.description.amount
                     <= cs.best_offer.max_consolidated_balance
              /\ SumField(LegacyPartition(get_customer_debts(db),
                                          cs.best_offer).consolidated,
                          "balance")
                     <= cs.best_offer.max_consolidated_balance

\* debts above the cap were split: some were consolidated, up to the cap,
\* and a consolidatable debt was left out
C13_Witness ==
    /\ ConsolidationReturned /\ Consolidated /\ OverCap
    /\ Len(cs.consolidated_debts) >= 1
    /\ Len(cs.consolidated_debts) < Len(ConsolidatableDebts)
    /\ SumField(cs.consolidated_debts, "balance") > 0

\* C14 (as claimed): when the consolidatable debts exceed the cap, the
\* consolidated debts are the first debts of the rate-descending order, up
\* to the first debt that does not fit: no consolidated debt has a lower
\* rate than a consolidatable debt that was left out.
C14_GreedyPrefixByRate ==
    (ConsolidationReturned /\ cs.kind = "consolidation"
     /\ cs.path \in {"consolidated", "nothing_to_consolidate"} /\ OverCap) =>
        LET sorted == SortByRateDesc(ConsolidatableDebts)
            n == Len(cs.consolidated_debts)
        IN  /\ cs.consolidated_debts = SubSeq(sorted, 1, n)
            /\ \A i \in 1..n : \A j \in (n + 1)..Len(sorted) :
                   sorted[j].annual_rate_pct
                       <= cs.consolidated_debts[i].annual_rate_pct

\* C15 (as claimed): every consolidated debt is of a kind the chosen offer
\* accepts and is at most 30 days past due.
C15_ConsolidatedNotDelinquent ==
    (ConsolidationReturned /\ Consolidated) =>
        \A i \in 1..Len(cs.consolidated_debts) :
            /\ TypeEligible(cs.consolidated_debts[i], cs.best_offer)
            /\ cs.consolidated_debts[i].days_past_due <= 30

----------------------------------------------------------------------------
(* The offer a consolidation is computed with *)

\* the stored offers the call may choose from: the offers named in
\* eligible_offers_data, every stored offer when the calculator is called
\* without it, and for a service the offers the agent found eligible with
\* confidence
EligibleOfferSet ==
    IF call.op = "consolidation"
    THEN {offers[k] : k \in {j \in 1..Len(offers) :
                        \/ ~call.given
                        \/ \E i \in 1..Len(call.eligible_offers_data) :
                              call.eligible_offers_data[i] = offers[j].id}}
    ELSE IF call.op = "analysis" /\ ~call.profile
    THEN {offers[k] : k \in 1..Len(offers)}
    ELSE {offers[k] : k \in {j \in 1..Len(offers) :
                        /\ call.eligibility[j].is_eligible
                        /\ call.eligibility[j].confidence_score
                               >= MIN_CONFIDENCE}}

\* the call returned a scenario computed with a stored offer
OfferChosen ==
    /\ pc = "returned"
    /\ call.op \in {"consolidation", "analysis", "enhanced"}
    /\ cs.kind = "consolidation"
    /\ cs.best_offer # NoOffer

\* C16: the offer a consolidation is computed with is one of the eligible
\* offers and no eligible offer has a lower new_rate_pct, on the calculator
\* and on both services.
C16_ChosenOfferHasMinimalRate ==
    OfferChosen =>
        /\ cs.best_offer \in EligibleOfferSet
        /\ \A o \in EligibleOfferSet :
               cs.best_offer.new_rate_pct <= o.new_rate_pct

\* an offer a consolidation can be computed with
Usable(offer) ==
    offer.max_term_months > 0 /\ offer.max_consolidated_balance > 0

\* C17: an offer with max_term_months <= 0 or max_consolidated_balance <= 0
\* is never the offer the call settles on: the chosen offer has a positive
\* term and a positive balance cap.
C17_UnusableOfferNeverChosen ==
    OfferChosen => Usable(cs.best_offer)

----------------------------------------------------------------------------
(* The consolidation scenario when nothing can be consolidated *)

\* the call returned without an offer to use (none stored, none eligible)
\* or with an offer no debt qualifies for
ConsolidationUnavailable ==
    /\ pc = "returned"
    /\ call.op \in {"consolidation", "analysis", "enhanced"}
    /\ cs.kind = "consolidation"
    /\ cs.path \in {"no_offers", "no_eligible_offers", "not_available",
                   "nothing_to_consolidate"}

\* the descriptions that say that no consolidation is shown
UnavailableTexts ==
    {"no hay ofertas de consolidacion disponibles",
     "no hay ofertas de consolidacion elegibles",
     "no hay deudas elegibles para consolidar",
     "consolidacion no disponible",
     "consolidacion no disponible actualmente"}

\* the plans and totals of the result are those of the optimized scenario
SameAsOptimized ==
    LET optimized == calculate_optimized_scenario(db)
    IN  /\ result.payment_plans = optimized.payment_plans
        /\ result.total_monthly_payment = optimized.total_monthly_payment
        /\ result.total_payoff_months = optimized.total_payoff_months
        /\ result.total_interest = optimized.total_interest
        /\ result.total_payments = optimized.total_payments

\* C18: when no offer is stored, no offer is eligible or no debt qualifies
\* for the chosen offer, the result carries the plans and totals of the
\* optimized scenario, is named as the consolidation scenario and its
\* description says that consolidation is not available, on the calculator
\* and on both services.
C18_UnavailableIsOptimizedRelabelled ==
    ConsolidationUnavailable =>
        /\ SameAsOptimized
        /\ result.scenario_name = "Consolidacion"
        /\ result.description.text \in UnavailableTexts

----------------------------------------------------------------------------
(* Properties of the optimized scenario as a whole *)

\* a call of calculate_optimized_scenario, of either calculator, returned
OptimizedCallReturned ==
    pc = "returned" /\ call.op \in {"optimized", "legacy_optimized"}

\* the minimum-payment scenario of the calculator that was called
MinimumScenario ==
    IF call.op = "legacy_optimized"
    THEN legacy_calculate_minimum_payment_scenario(db)
    ELSE calculate_minimum_payment_scenario(db)

\* the result carries the plans and totals of the minimum-payment scenario
MinimumNumbers ==
    /\ result.payment_plans = MinimumScenario.payment_plans
    /\ result.total_monthly_payment = MinimumScenario.total_monthly_payment
    /\ result.total_payoff_months = MinimumScenario.total_payoff_months
    /\ result.total_interest = MinimumScenario.total_interest
    /\ result.total_payments = MinimumScenario.total_payments

\* C19: for a customer without a cashflow record calculate_optimized_scenario
\* returns the numbers of the minimum-payment scenario under the name of the
\* optimized scenario, with a description of its own that tells of the
\* fallback rather than the description of the minimum-payment scenario.
C19_NoCashflowFallbackIdentified ==
    (OptimizedCallReturned /\ db.cashflow = None) =>
        /\ MinimumNumbers
        /\ result.scenario_name = "Plan Optimizado"
        /\ result.description # MinimumScenario.description

\* C20: the savings of every returned scenario are the total_payments of the
\* minimum-payment scenario of the same debts less the total_payments of the
\* scenario itself.
C20_OneSavingsDefinition ==
    OptimizedCallReturned =>
        result.savings_vs_minimum
            = MinimumScenario.total_payments - result.total_payments

----------------------------------------------------------------------------
(* Properties of every returned ScenarioResult *)

\* a scenario builder returned, called directly or through a service
ScenarioReturned ==
    /\ pc = "returned"
    /\ call.op \in {"optimized", "legacy_optimized", "consolidation",
                   "analysis", "enhanced"}

\* C21: the totals of a returned ScenarioResult are those of its payment
\* plans: total_payoff_months is the largest payoff_months (0 without
\* plans), total_interest and total_payments are the sums over the plans.
C21_TotalsMatchPlans ==
    ScenarioReturned =>
        /\ result.total_payoff_months
               = MaxField(result.payment_plans, "payoff_months")
        /\ result.total_interest
               = SumField(result.payment_plans, "total_interest")
        /\ result.total_payments
               = SumField(result.payment_plans, "total_payments")

\* a consolidation was returned with a consolidated plan and plans of
\* debts left out of it
C21_Witness ==
    /\ ScenarioReturned
    /\ cs.kind = "consolidation"
    /\ cs.path = "consolidated"
    /\ Len(result.payment_plans) >= 2
    /\ result.total_interest > 0

----------------------------------------------------------------------------
(* One calculation, one snapshot *)

\* a call that carries the records it started from has returned
SnapshotCallReturned ==
    /\ pc = "returned"
    /\ call.op = "optimized"
    /\ "snapshot" \in DOMAIN call

\* C22: the plans of the returned scenario and the minimum baseline of its
\* savings_vs_minimum are both derived from the records as they were when
\* the calculation started, whatever is written to the store while it runs.
C22_SingleSnapshot ==
    SnapshotCallReturned =>
        /\ result.payment_plans
               = calculate_optimized_scenario(call.snapshot).payment_plans
        /\ result.savings_vs_minimum
               = calculate_minimum_payment_scenario(call.snapshot).total_payments
                 - result.total_payments

----------------------------------------------------------------------------
(* Two analyses on one FinancialAnalysisService                            *)
(*                                                                         *)
(* analyze_customer_debt is a coroutine.  _calculate_all_scenarios runs    *)
(* without suspension up to the await of                                   *)
(* EligibilityAgent.batch_evaluate_offers, which awaits the model's reply  *)
(* for every stored offer, and without suspension from there on.  In       *)
(* these runs db holds the records of both customers, pc the position of   *)
(* each analysis, cs the attributes of the service instance and result the *)
(* scenarios dictionary of each analysis.                                  *)

Tasks == {1, 2}

InterleavedCustomers ==
    {c \in Customers :
        /\ c.cashflow = 60000
        /\ Len(c.loans) + Len(c.cards) > 0
        /\ \A i \in 1..Len(c.loans) : c.loans[i].id \in {"L1", "L2"}
        /\ \A i \in 1..Len(c.cards) : c.cards[i].id \in {"K1", "K2"}}

\* _generate_scenario_metadata, additional_info: empty without savings, else
\* the savings and the months saved against the stored reference
additional_info(scenario, service) ==
    IF scenario.savings_vs_minimum > 0
    THEN {[interest_savings |-> scenario.savings_vs_minimum,
           time_savings_months |->
               IF service._minimum_scenario_reference # NoResult
               THEN Max(0, service._minimum_scenario_reference.total_payoff_months
                           - scenario.total_payoff_months)
               ELSE 0,
           total_savings |-> scenario.savings_vs_minimum]}
    ELSE {}

\* _scenario_to_dict, without the plans and the texts
scenario_to_dict(scenario, service) ==
    [scenario_name |-> scenario.scenario_name,
     total_payoff_months |-> scenario.total_payoff_months,
     total_payments |-> scenario.total_payments,
     savings_vs_minimum |-> scenario.savings_vs_minimum,
     additional_info |-> additional_info(scenario, service)]

InitInterleaved ==
    /\ db \in [Tasks -> InterleavedCustomers]
    /\ offers \in {<<OfferCatalogue[7]>>, <<OfferCatalogue[1], OfferCatalogue[7]>>}
    /\ call = [t \in Tasks |->
                  [op |-> "analyze_customer_debt", customer_id |-> t,
                   profile |-> TRUE,
                   eligibility |-> [i \in 1..Len(offers) |->
                       [is_eligible |-> TRUE, confidence_score |-> 10]]]]
    /\ pc = [t \in Tasks |-> "start"]
    /\ cs = [kind |-> "service", _minimum_scenario_reference |-> NoResult]
    /\ result = [t \in Tasks |-> [kind |-> "none"]]
    /\ pf = NoLocals
    /\ av = NoLocals

\* _calculate_all_scenarios up to the await of the eligibility results: the
\* minimum scenario is stored on the instance, the minimum and the optimized
\* scenario are converted
CalculateAllScenarios(t) ==
    /\ pc[t] = "start"
    /\ LET min_scenario == calculate_minimum_payment_scenario(db[t])
           opt_scenario == calculate_optimized_scenario(db[t])
           service == [cs EXCEPT !._minimum_scenario_reference = min_scenario]
       IN  /\ cs' = service
           /\ result' = [result EXCEPT ![t] =
                  [kind |-> "scenarios",
                   minimum |-> scenario_to_dict(min_scenario, service),
                   optimized |-> scenario_to_dict(opt_scenario, service)]]
    /\ pc' = [pc EXCEPT ![t] = "await_eligibility"]
    /\ UNCHANGED <<db, offers, call, pf, av>>

\* the rest of _calculate_all_scenarios: the consolidation scenario of the
\* eligibility results is converted with the instance as it is then
ConsolidationScenario(t) ==
    /\ pc[t] = "await_eligibility"
    /\ LET cons_scenario == calculate_intelligent_consolidation_scenario(
                                db[t], offers, call[t].profile,
                                call[t].eligibility).result
       IN  result' = [result EXCEPT ![t] =
               [kind |-> "scenarios",
                minimum |-> result[t].minimum,
                optimized |-> result[t].optimized,
                consolidation |-> scenario_to_dict(cons_scenario, cs)]]
    /\ pc' = [pc EXCEPT ![t] = "returned"]
    /\ UNCHANGED <<db, offers, call, pf, av, cs>>

NextInterleaved == \E t \in Tasks : CalculateAllScenarios(t) \/ ConsolidationScenario(t)

SpecInterleaved == InitInterleaved /\ [][NextInterleaved]_vars

----------------------------------------------------------------------------
(* C23: the reference of the months saved                                  *)

AnalysisReturned(t) == pc[t] = "returned"

\* the months saved that the analysis of t reports for a scenario
ReportedTimeSavings(t, name) ==
    {info.time_savings_months : info \in result[t][name].additional_info}

\* the months saved against the customer's own minimum scenario
OwnTimeSavings(t, name) ==
    Max(0, calculate_minimum_payment_scenario(db[t]).total_payoff_months
           - result[t][name].total_payoff_months)

\* C23: in every finished analysis the months saved of each scenario are
\* counted against the minimum scenario of the analysed customer, however
\* the analyses of two customers interleave on the instance.
C23_OwnMinimumReference ==
    \A t \in Tasks :
        AnalysisReturned(t) =>
            \A name \in {"minimum", "optimized", "consolidation"} :
                ReportedTimeSavings(t, name) \subseteq {OwnTimeSavings(t, name)}

----------------------------------------------------------------------------
(* Two runs of EnhancedConsolidationService on the same records            *)
(*                                                                         *)
(* list(set(ineligible_reasons)) lists the reasons in the order of the     *)
(* set's hash table, which follows the string hashes of the interpreter    *)
(* that runs the call (PYTHONHASHSEED), kept here as the order in which    *)
(* the interpreter of each run meets the reason texts.                     *)

Runs == {1, 2}

Reasons == {"score", "ingresos", "mora"}

\* the orders a set of strings can be listed in
ListsOfSet(S) ==
    {f \in [1..Cardinality(S) -> S] : \A x \in S : \E i \in DOMAIN f : f[i] = x}

RECURSIVE SetOfSeq(_)
SetOfSeq(s) == IF Len(s) = 0 THEN {} ELSE {Head(s)} \cup SetOfSeq(Tail(s))

\* for offer_analysis in offers_analysis: if not is_eligible: extend
RECURSIVE ineligible_reasons(_)
ineligible_reasons(eligibility) ==
    IF Len(eligibility) = 0 THEN <<>>
    ELSE (IF ~Head(eligibility).is_eligible
          THEN Head(eligibility).reasons_not_eligible ELSE <<>>)
         \o ineligible_reasons(Tail(eligibility))

\* the elements of hash_order that are in S, in that order
RECURSIVE ListOfSet(_, _)
ListOfSet(S, hash_order) ==
    IF Len(hash_order) = 0 THEN <<>>
    ELSE (IF Head(hash_order) \in S THEN <<Head(hash_order)>> ELSE <<>>)
         \o ListOfSet(S, Tail(hash_order))

\* unique_reasons = list(set(ineligible_reasons)); unique_reasons[:3]
unique_reasons(eligibility, hash_order) ==
    LET listed == ListOfSet(SetOfSeq(ineligible_reasons(eligibility)),
                            hash_order)
    IN  SubSeq(listed, 1, Min(3, Len(listed)))

\* the eligibility results of the runs, with the reasons of a refusal
ReasonedEligibilityChoices ==
    {[is_eligible |-> TRUE, confidence_score |-> 10,
      reasons_not_eligible |-> <<>>],
     [is_eligible |-> FALSE, confidence_score |-> 8,
      reasons_not_eligible |-> <<"score", "ingresos">>],
     [is_eligible |-> FALSE, confidence_score |-> 8,
      reasons_not_eligible |-> <<"mora", "score">>]}

TwiceCustomers ==
    {c \in ConsolidationCustomers :
        /\ c.cashflow = 150000
        /\ \A i \in 1..Len(c.loans) : c.loans[i].id = "L2"
        /\ \A i \in 1..Len(c.cards) : c.cards[i].id = "K2"}

InitTwice ==
    /\ db \in TwiceCustomers
    /\ offers \in {<<OfferCatalogue[1]>>, <<OfferCatalogue[1], OfferCatalogue[3]>>}
    /\ \E eligibility \in [1..Len(offers) -> ReasonedEligibilityChoices],
          hash_order \in [Runs -> ListsOfSet(Reasons)] :
          call = [op |-> "enhanced", eligibility |-> eligibility,
                  hash_order |-> hash_order]
    /\ pc = [k \in Runs |-> "start"]
    /\ result = [k \in Runs |-> NoResult]
    /\ pf = NoLocals
    /\ av = NoLocals
    /\ cs = NoLocals

\* calculate_intelligent_consolidation_scenario in the interpreter of run k
RunEnhanced(k) ==
    /\ pc[k] = "start"
    /\ LET r == calculate_enhanced_consolidation_scenario(
                    db, offers, call.eligibility)
       IN  /\ cs' = r.locals
           /\ result' = [result EXCEPT ![k] =
                  IF r.locals.path = "not_available"
                  THEN [r.result EXCEPT !.description =
                           [text |-> r.result.description.text,
                            amount |-> r.result.description.amount,
                            unique_reasons |->
                                unique_reasons(call.eligibility,
                                               call.hash_order[k])]]
                  ELSE r.result]
    /\ pc' = [pc EXCEPT ![k] = "returned"]
    /\ UNCHANGED <<db, offers, call, pf, av>>

NextTwice == \E k \in Runs : RunEnhanced(k)

SpecTwice == InitTwice /\ [][NextTwice]_vars

----------------------------------------------------------------------------
(* C24: two runs on the same records                                       *)

BothRunsReturned == \A k \in Runs : pc[k] = "returned"

\* C24: two runs on identical debts, cashflow, offers and eligibility
\* results return scenarios that are equal in every field, the description
\* with its listed reasons included.
C24_RunsAgree == BothRunsReturned => result[1] = result[2]

----------------------------------------------------------------------------
(* C25: the recomputed minimum of a card                                   *)

\* a month of the single-debt loop in which the payment is recomputed
RecomputedMonth ==
    /\ pc = "payoff_loop" /\ PayoffRunning /\ ~FixedPayment
    /\ pf'.iters = pf.iters + 1

\* C25: while a card with a positive min_payment_pct is simulated at its
\* minimum payment, the payment of every month is
\* max(balance * min_payment_pct / 100, 10) of the balance the month starts
\* with, capped at that balance plus the month's interest, and it is never
\* more than the payment of the month before.
C25_RecomputedMinimumNeverIncreases ==
    [][RecomputedMonth =>
          /\ pf'.last_payment =
                 Min(Max((pf.balance * CardMinPaymentPct(db, call.debt.id))
                             \div 100, MIN_CARD_PAYMENT),
                     pf.balance + pf'.last_interest)
          /\ pf.iters >= 1 => pf'.last_payment <= pf.last_payment]_vars

C25_Witness ==
    /\ pc = "payoff_loop" /\ PayoffRunning /\ ~FixedPayment
    /\ pf.iters >= 2
    /\ pf.last_payment < call.monthly_payment
    /\ pf.last_payment > MIN_CARD_PAYMENT

----------------------------------------------------------------------------
(* C26: the budget of the debts left out of a consolidation                *)

ConsolidatedWithCashflow ==
    /\ pc = "returned" /\ cs.kind = "consolidation" /\ cs.path = "consolidated"
    /\ db.cashflow # None

\* the monthly payment of the consolidated plan
ConsolidatedPayment == result.payment_plans[1].monthly_payment

\* the payment_amount of the debts left out, added up
UnconsolidatedPayments == result.total_monthly_payment - ConsolidatedPayment

\* C26: in a consolidation of a customer with a cashflow record, the
\* payments given to the debts left out add up to no more than the cashflow
\* left after the consolidated payment, or than their minimum payments
\* together when that is more.
C26_UnconsolidatedWithinBudget ==
    ConsolidatedWithCashflow =>
        UnconsolidatedPayments
            <= Max(db.cashflow - ConsolidatedPayment,
                   SumField(cs.unconsolidated_debts, "minimum_payment"))

----------------------------------------------------------------------------
(* C27: the offer behind the numbers of the enhanced service               *)

\* the enhanced service returned a consolidation computed with an offer
EnhancedOfferChosen ==
    /\ pc = "returned" /\ call.op = "enhanced"
    /\ cs.kind = "consolidation" /\ cs.path = "consolidated"

\* C27: when the enhanced service returns a consolidation, the offer the
\* plans were computed with is the offer selected from the eligible ones
\* and named in the description, and the agent found it eligible with a
\* confidence of at least 0.7.
C27_NumbersFromSelectedOffer ==
    EnhancedOfferChosen =>
        /\ cs.best_offer.id = result.description.offer_id
        /\ cs.best_offer \in EligibleOfferSet

----------------------------------------------------------------------------
(* C28: the payments of a month and the cashflow                           *)

\* the optimized scenario was simulated month by month and returned
AvalancheReturned == OptimizedReturned /\ av.kind = "avalanche"

\* C28: in every month of the avalanche loop the payments to all debts,
\* minimums and extra together, add up to no more than the conservative
\* cashflow, so what has been paid after m months is at most m times the
\* cashflow, and the returned total_payments is at most the cashflow times
\* total_payoff_months.
C28_MonthWithinCashflow ==
    /\ AvalancheMonthDone =>
          /\ SumField(av.rows, "payment") <= db.cashflow
          /\ av.total_amount_paid <= db.cashflow * av.month
    /\ AvalancheReturned =>
          result.total_payments <= db.cashflow * result.total_payoff_months

C28_Witness ==
    /\ AvalancheReturned
    /\ Len(result.payment_plans) >= 2
    /\ result.total_payoff_months >= 2
    /\ result.total_payments > db.cashflow * (result.total_payoff_months - 1)

----------------------------------------------------------------------------
(* C29: balances and interest in the two simulations                       *)

\* C29: in the single-debt loop and in the avalanche loop the balance of
\* every debt is at least zero after every month and not above what it was
\* a month before, and the interest of every month, the interest added up
\* and the total_interest of the returned plan or scenario are at least
\* zero.
C29_BalancesFallInterestNonNegative ==
    /\ PayoffRunning =>
          /\ pf.balance >= 0
          /\ pf.balance <= pf.prev_balance
          /\ pf.last_interest >= 0
          /\ pf.total_interest >= 0
    /\ AvalancheRunning =>
          /\ \A i \in DebtIndices :
                /\ av.debt_balances[i] >= 0
                /\ av.debt_balances[i] <= av.prev_balances[i]
                /\ av.rows[i].interest >= 0
                /\ av.interest_sum[i] >= 0
          /\ av.total_interest_paid >= 0
    /\ (PayoffReturned \/ AvalancheReturned) => result.total_interest >= 0

C29_Witness ==
    /\ AvalancheRunning /\ av.month >= 2
    /\ \E i \in DebtIndices :
          /\ av.debt_balances[i] > 0
          /\ av.debt_balances[i] < av.prev_balances[i]
          /\ av.rows[i].interest > 0
    /\ \E i \in DebtIndices : av.debt_balances[i] = 0 /\ av.prev_balances[i] > 0

----------------------------------------------------------------------------
(* C30: the split of the debts                                             *)

\* how often the debt with this id is in a list of debts
Occurrences(debts, id) ==
    Cardinality({i \in 1..Len(debts) : debts[i].id = id})

\* every debt is in exactly one of the two lists of the split and the
\* balances of the two lists add up to the balance of all debts
SplitsExactly(part, debts) ==
    /\ \A k \in 1..Len(debts) :
           Occurrences(part.consolidated, debts[k].id)
           + Occurrences(part.unconsolidated, debts[k].id) = 1
    /\ Len(part.consolidated) + Len(part.unconsolidated) = Len(debts)
    /\ SumField(part.consolidated, "balance")
       + SumField(part.unconsolidated, "balance") = SumField(debts, "balance")

\* C30: whenever the result holds a consolidated plan, every debt of the
\* customer is either one of the consolidated debts or one of the debts left
\* out, never both and never neither, whether or not the cap was exceeded,
\* and every debt left out has its own plan; the split of
\* app/services/debt_calculator.py has the same property for the same debts
\* and offer.
C30_EveryDebtInOneSet ==
    (ConsolidationReturned /\ Consolidated) =>
        /\ SplitsExactly([consolidated |-> cs.consolidated_debts,
                          unconsolidated |-> cs.unconsolidated_debts],
                         get_customer_debts(db))
        /\ Len(result.payment_plans) = 1 + Len(cs.unconsolidated_debts)
        /\ \A i \in 1..Len(cs.unconsolidated_debts) :
               \E j \in 2..Len(result.payment_plans) :
                   result.payment_plans[j].debt_id = cs.unconsolidated_debts[i].id
        /\ SplitsExactly(LegacyPartition(get_customer_debts(db), cs.best_offer),
                         get_customer_debts(db))

\* a split above the cap with a debt of another kind and a debt that did
\* not fit both left out
C30_Witness ==
    /\ ConsolidationReturned /\ Consolidated /\ OverCap
    /\ Len(cs.consolidated_debts) >= 1
    /\ \E i \in 1..Len(cs.unconsolidated_debts) :
           cs.unconsolidated_debts[i].debt_type
               \in cs.best_offer.product_types_eligible
    /\ \E i \in 1..Len(cs.unconsolidated_debts) :
           cs.unconsolidated_debts[i].debt_type
               \notin cs.best_offer.product_types_eligible

====
